---------------------------- MODULE Spec2Model ----------------------------
(***************************************************************************)
(* Model of scripts/detect_holds.py: the tiling loop of detect_holds, the  *)
(* retrying detection client call_api, the coordinate mapping, the         *)
(* pairwise deduplication deduplicate_predictions, the confidence filter   *)
(* of the result-assembly loop and the write of the output file by main.   *)
(*                                                                         *)
(* Conventions.  Python lists are sequences, so the source's index k is    *)
(* k+1 here.  A prediction is a record whose DOMAIN is the set of keys the *)
(* Python dict holds.  Confidences are integers in thousandths.  A center  *)
(* is the exact rational <<sum x, sum y, count>>; the source computes it   *)
(* in binary floating point.                                               *)
(***************************************************************************)
EXTENDS Integers, Sequences, FiniteSets, TLC

VARIABLES
    width, height,      \* working image size (detect_holds, line 144)
    confidence,         \* args.confidence, in thousandths
    pc,                 \* position of the program
    row, col,           \* tile loop of detect_holds
    attempt,            \* loop variable of call_api
    statuses,           \* status codes received by the current call_api
    waits,              \* durations slept by the current call_api
    response,           \* body of the last response (its predictions)
    ret,                \* list returned by the last completed call_api
    all_predictions,    \* accumulated global detections / argument of dedup
    predictions,        \* deduplicate_predictions: list after the filter
    threshold,          \* deduplicate_predictions: threshold
    keep,               \* deduplicate_predictions: keep flags
    i, j,               \* deduplicate_predictions: loop indices
    compared,           \* history: pairs whose distance was computed (line 62)
    pass,               \* 1: first application, 2: re-application to own output
    firstOut,           \* output of the first application
    output,             \* list returned by deduplicate_predictions
    detected_holds,     \* result-assembly loop output
    written,            \* main wrote the JSON file
    px, py, cover       \* tile coverage census: a pixel and the tiles holding it

vars == <<width, height, confidence, pc, row, col, attempt, statuses, waits,
          response, ret, all_predictions, predictions, threshold, keep, i, j,
          compared, pass, firstOut, output, detected_holds, written,
          px, py, cover>>

apiVars   == <<attempt, statuses, waits, response, ret>>
dedupVars == <<predictions, threshold, keep, i, j, compared, pass, firstOut, output>>
tileVars  == <<px, py, cover>>

---------------------------------------------------------------------------
(* Bounds of the model and program constants *)

MaxDets == 3

max_retries == 3

tile_cols == 3

tile_rows == 3

dedup_threshold == 20

default_confidence == 500

---------------------------------------------------------------------------
(* dict.get(key, default) *)
Get(p, key, default) == IF key \in DOMAIN p THEN p[key] ELSE default

RECURSIVE SumX(_)
SumX(pts) == IF pts = <<>> THEN 0 ELSE Head(pts).x + SumX(Tail(pts))

RECURSIVE SumY(_)
SumY(pts) == IF pts = <<>> THEN 0 ELSE Head(pts).y + SumY(Tail(pts))

(* lines 45-50: mean of the polygon points, else the box's stored center *)
CenterOf(pred) ==
    IF "points" \in DOMAIN pred
    THEN [sx |-> SumX(pred.points), sy |-> SumY(pred.points), n |-> Len(pred.points)]
    ELSE [sx |-> Get(pred, "x", 0), sy |-> Get(pred, "y", 0), n |-> 1]

(* squared distance between two centers, scaled by (c1.n * c2.n)^2 *)
DistSqScaled(c1, c2) ==
    LET dx == c1.sx * c2.n - c2.sx * c1.n
        dy == c1.sy * c2.n - c2.sy * c1.n
    IN  dx * dx + dy * dy

(* a plausible slip: the square root is forgotten *)
CloseNoSqrt(c1, c2, thr) ==
    DistSqScaled(c1, c2) < thr * (c1.n * c2.n) * (c1.n * c2.n)

(* lines 62-64: dist < threshold, for a threshold >= 0 *)
Close(c1, c2, thr) ==
    DistSqScaled(c1, c2) < (thr * thr) * (c1.n * c2.n) * (c1.n * c2.n)

(* plausible slips of the comparison of line 66 *)
KeepsFirstStrict(pi, pj) ==
    Get(pi, "confidence", 0) > Get(pj, "confidence", 0)

KeepsFirstAlways(pi, pj) == TRUE

KeepsLower(pi, pj) ==
    Get(pi, "confidence", 0) <= Get(pj, "confidence", 0)

(* line 66 *)
KeepsFirst(pi, pj) ==
    Get(pi, "confidence", 0) >= Get(pj, "confidence", 0)

RECURSIVE FilterEmpty(_)
(* line 40 *)
FilterEmpty(L) ==
    IF L = <<>> THEN <<>>
    ELSE IF "points" \in DOMAIN Head(L) /\ Len(Head(L).points) = 0
         THEN FilterEmpty(Tail(L))
         ELSE <<Head(L)>> \o FilterEmpty(Tail(L))

(* a plausible slip: the break leaves the inner loop after any removal *)
InnerBodyBreakAlways(preds, kp, a, b, thr) ==
    IF ~kp[b] THEN [keep |-> kp, brk |-> FALSE, cmp |-> FALSE]
    ELSE IF Close(CenterOf(preds[a]), CenterOf(preds[b]), thr)
         THEN IF KeepsFirst(preds[a], preds[b])
              THEN [keep |-> [kp EXCEPT ![b] = FALSE], brk |-> TRUE, cmp |-> TRUE]
              ELSE [keep |-> [kp EXCEPT ![a] = FALSE], brk |-> TRUE, cmp |-> TRUE]
         ELSE [keep |-> kp, brk |-> FALSE, cmp |-> TRUE]

(* lines 59-70: one iteration of the inner loop, for a kept i = a and j = b. *)
(* brk: the loop is left; cmp: the distance was computed.                    *)
InnerBody(preds, kp, a, b, thr) ==
    IF ~kp[b] THEN [keep |-> kp, brk |-> FALSE, cmp |-> FALSE]
    ELSE IF Close(CenterOf(preds[a]), CenterOf(preds[b]), thr)
         THEN IF KeepsFirst(preds[a], preds[b])
              THEN [keep |-> [kp EXCEPT ![b] = FALSE], brk |-> FALSE, cmp |-> TRUE]
              ELSE [keep |-> [kp EXCEPT ![a] = FALSE], brk |-> TRUE, cmp |-> TRUE]
         ELSE [keep |-> kp, brk |-> FALSE, cmp |-> TRUE]

RECURSIVE Kept(_, _)
(* line 72 *)
Kept(preds, kp) ==
    IF preds = <<>> THEN <<>>
    ELSE (IF Head(kp) THEN <<Head(preds)>> ELSE <<>>) \o Kept(Tail(preds), Tail(kp))

(* lines 36-53: entry of deduplicate_predictions(L, threshold) *)
DedupEntry(L) ==
    IF L = <<>>
    THEN [pc |-> "deduped", predictions |-> <<>>, keep |-> <<>>]
    ELSE [pc |-> "outer", predictions |-> FilterEmpty(L),
          keep |-> [k \in 1..Len(FilterEmpty(L)) |-> TRUE]]

---------------------------------------------------------------------------
(* Inputs of the deduplication census *)

Box(x, y, c) == [x |-> x, y |-> y, width |-> 8, height |-> 8, confidence |-> c,
                 class |-> "hold"]

Pt(x, y) == [x |-> x, y |-> y]

DetUniverse ==
    { Box(0, 0, 500), Box(12, 0, 700), Box(24, 0, 900), Box(12, 16, 500),
      [x |-> 0, y |-> 0, width |-> 8, height |-> 8],
      [points |-> <<Pt(11, 0), Pt(13, 0), Pt(12, 1)>>, confidence |-> 500],
      [points |-> <<>>, confidence |-> 900] }

Thresholds == {0, 13, 20, 25}

Confidences == {0, 500, 600}

DetLists == UNION { [1..n -> DetUniverse] : n \in 0..MaxDets }

---------------------------------------------------------------------------
(* Tiling (detect_holds, lines 148-167) *)

Max(a, b) == IF a > b THEN a ELSE b

Min(a, b) == IF a < b THEN a ELSE b

(* lines 151-152 *)
TileSize(extent, cells) == extent \div cells

(* lines 149, 153-154: int(tile_size * 0.3) *)
OverlapOf(tileSize) == (tileSize * 3) \div 10

(* a plausible slip: the overlap is left out of the far edge *)
TileBoundsNoFarOverlap(r, c, w, h) ==
    LET tw == TileSize(w, tile_cols)
        th == TileSize(h, tile_rows)
    IN  [x1 |-> Max(0, c * tw - OverlapOf(tw)),
         y1 |-> Max(0, r * th - OverlapOf(th)),
         x2 |-> Min(w, (c + 1) * tw),
         y2 |-> Min(h, (r + 1) * th)]

(* lines 162-165: the tile is the pixel range [x1, x2) x [y1, y2) (line 167) *)
TileBounds(r, c, w, h) ==
    LET tw == TileSize(w, tile_cols)
        th == TileSize(h, tile_rows)
    IN  [x1 |-> Max(0, c * tw - OverlapOf(tw)),
         y1 |-> Max(0, r * th - OverlapOf(th)),
         x2 |-> Min(w, (c + 1) * tw + OverlapOf(tw)),
         y2 |-> Min(h, (r + 1) * th + OverlapOf(th))]

InTile(x, y, b) == b.x1 <= x /\ x < b.x2 /\ b.y1 <= y /\ y < b.y2

(* lines 159-160: the successor of (row, col) in row-major order *)
NextRow(r, c) == IF c + 1 < tile_cols THEN r ELSE r + 1

NextCol(r, c) == IF c + 1 < tile_cols THEN c + 1 ELSE 0

---------------------------------------------------------------------------
(* Detection client (call_api, lines 75-104) *)

Statuses == {200, 404, 500, 503}

(* plausible slips of the retry condition of line 96 *)
RetriesAnyFailure(status, att) == att < max_retries - 1

RetriesWithoutLimit(status, att) == status >= 500

(* line 96 *)
ShouldRetry(status, att) == status >= 500 /\ att < max_retries - 1

(* a plausible slip: a constant wait *)
BackoffConstant(att) == 1

(* line 97 *)
Backoff(att) == 2 ^ att

(* line 94: response.json().get("predictions", []) *)
PredictionsOf(resp) == Get(resp.json, "predictions", <<>>)

(* The detection service: objects of the scene, each reported or not by a  *)
(* tile that holds it, in tile-local coordinates, with some jitter.         *)
SceneBox == [x |-> 120, y |-> 50]

ScenePolygon == [x |-> 250, y |-> 250]

ReplyConfs == {400, 600}

Jitters == {0, 6}

BoxReports(b) ==
    IF InTile(SceneBox.x, SceneBox.y, b)
    THEN {<<>>} \cup
         { <<Box(SceneBox.x - b.x1 + d, SceneBox.y - b.y1, c)>> :
             d \in Jitters, c \in ReplyConfs }
    ELSE {<<>>}

PolygonReports(b) ==
    IF InTile(ScenePolygon.x, ScenePolygon.y, b)
    THEN {<<>>,
          << [points |-> << Pt(ScenePolygon.x - b.x1 - 3, ScenePolygon.y - b.y1),
                            Pt(ScenePolygon.x - b.x1 + 3, ScenePolygon.y - b.y1),
                            Pt(ScenePolygon.x - b.x1, ScenePolygon.y - b.y1 + 3) >>,
              confidence |-> 500, class |-> "volume"] >>}
    ELSE {<<>>}

ServiceBodies(b) ==
    { [predictions |-> r1 \o r2] : r1 \in BoxReports(b), r2 \in PolygonReports(b) }
    \cup (IF b.x1 = 0 /\ b.y1 = 0 THEN {[time |-> 1]} ELSE {})

ErrorBody == [message |-> "error"]

---------------------------------------------------------------------------
(* Coordinate mapping (detect_holds, lines 175-182) *)

RECURSIVE ShiftPoints(_, _, _)
ShiftPoints(pts, dx, dy) ==
    IF pts = <<>> THEN <<>>
    ELSE <<[Head(pts) EXCEPT !.x = @ + dx, !.y = @ + dy]>>
         \o ShiftPoints(Tail(pts), dx, dy)

ToGlobal(pred, dx, dy) ==
    IF "points" \in DOMAIN pred
    THEN [pred EXCEPT !.points = ShiftPoints(@, dx, dy)]
    ELSE [pred EXCEPT !.x = @ + dx, !.y = @ + dy]

RECURSIVE MapToGlobal(_, _, _)
MapToGlobal(preds, dx, dy) ==
    IF preds = <<>> THEN <<>>
    ELSE <<ToGlobal(Head(preds), dx, dy)>> \o MapToGlobal(Tail(preds), dx, dy)

---------------------------------------------------------------------------
(* Result assembly (detect_holds, lines 191-261).  A hold is modelled by   *)
(* its confidence, its class and the number of points of its polygon; the  *)
(* percentage geometry and the sampled colour are left out.                *)

(* a plausible slip: a detection at the threshold is dropped *)
PassesStrict(conf, minimum) == conf > minimum

(* lines 197-198: the detection is skipped when conf < confidence *)
Passes(conf, minimum) == ~(conf < minimum)

(* lines 201-230: the polygon of a detection, by its number of points *)
PolygonSize(pred) == IF "points" \in DOMAIN pred THEN Len(pred.points) ELSE 4

(* lines 210-214: a polygon-form detection with an empty polygon is skipped *)
Emitted(pred, minimum) ==
    /\ Passes(Get(pred, "confidence", 0), minimum)
    /\ PolygonSize(pred) > 0

HoldOf(pred) ==
    [confidence |-> Get(pred, "confidence", 0),
     class |-> Get(pred, "class", "hold"),
     npoints |-> PolygonSize(pred)]

RECURSIVE AssembleHolds(_, _)
AssembleHolds(preds, minimum) ==
    IF preds = <<>> THEN <<>>
    ELSE (IF Emitted(Head(preds), minimum) THEN <<HoldOf(Head(preds))>> ELSE <<>>)
         \o AssembleHolds(Tail(preds), minimum)

---------------------------------------------------------------------------
(* Actions of the pipeline *)

ImageDims == {300}

Tile == TileBounds(row, col, width, height)

(* lines 159-171 and 77-80: the tile loop enters call_api for the next tile *)
EnterCallApi ==
    /\ pc = "tile"
    /\ row < tile_rows
    /\ attempt' = 0
    /\ statuses' = <<>>
    /\ waits' = <<>>
    /\ pc' = "call"
    /\ UNCHANGED <<width, height, confidence, row, col, response, ret,
                   all_predictions, detected_holds, written>>
    /\ UNCHANGED dedupVars
    /\ UNCHANGED tileVars

(* lines 80-104: one iteration of the retry loop, or the fall out of it *)
Request ==
    /\ pc = "call"
    /\ IF attempt >= max_retries
       THEN /\ ret' = <<>>
            /\ pc' = "returned"
            /\ UNCHANGED <<attempt, statuses, waits, response>>
       ELSE \E status \in Statuses :
            \E body \in (IF status = 200 THEN ServiceBodies(Tile) ELSE {ErrorBody}) :
               /\ statuses' = Append(statuses, status)
               /\ response' = [status_code |-> status, json |-> body]
               /\ IF status = 200
                  THEN /\ ret' = PredictionsOf(response')
                       /\ pc' = "returned"
                       /\ UNCHANGED <<attempt, waits>>
                  ELSE IF ShouldRetry(status, attempt)
                  THEN /\ waits' = Append(waits, Backoff(attempt))
                       /\ attempt' = attempt + 1
                       /\ UNCHANGED <<pc, ret>>
                  ELSE /\ pc' = "raised"
                       /\ UNCHANGED <<attempt, waits, ret>>
    /\ UNCHANGED <<width, height, confidence, row, col, all_predictions,
                   detected_holds, written>>
    /\ UNCHANGED dedupVars
    /\ UNCHANGED tileVars

(* lines 172-184: map the tile's predictions to image space, extend the list *)
MapAndExtend ==
    /\ pc = "returned"
    /\ all_predictions' = all_predictions \o MapToGlobal(ret, Tile.x1, Tile.y1)
    /\ row' = NextRow(row, col)
    /\ col' = NextCol(row, col)
    /\ pc' = "tile"
    /\ UNCHANGED <<width, height, confidence, detected_holds, written>>
    /\ UNCHANGED apiVars
    /\ UNCHANGED dedupVars
    /\ UNCHANGED tileVars

(* deduplicate_predictions is entered with list L and threshold thr *)
EnterDedup(L, thr, n) ==
    /\ pc' = DedupEntry(L).pc
    /\ predictions' = DedupEntry(L).predictions
    /\ keep' = DedupEntry(L).keep
    /\ threshold' = thr
    /\ i' = 1
    /\ j' = 1
    /\ compared' = {}
    /\ pass' = n
    /\ output' = <<>>

(* line 188: all tiles are done *)
BeginDedup ==
    /\ pc = "tile"
    /\ row = tile_rows
    /\ EnterDedup(all_predictions, dedup_threshold, 1)
    /\ UNCHANGED <<width, height, confidence, row, col, all_predictions,
                   firstOut, detected_holds, written>>
    /\ UNCHANGED apiVars
    /\ UNCHANGED tileVars

(* lines 55-58 and 72: head of the outer loop *)
DedupOuter ==
    /\ pc = "outer"
    /\ IF i > Len(predictions)
       THEN /\ output' = Kept(predictions, keep)
            /\ pc' = "deduped"
            /\ UNCHANGED <<i, j>>
       ELSE IF ~keep[i]
       THEN /\ i' = i + 1
            /\ UNCHANGED <<pc, j, output>>
       ELSE /\ j' = i + 1
            /\ pc' = "inner"
            /\ UNCHANGED <<i, output>>
    /\ UNCHANGED <<width, height, confidence, row, col, all_predictions,
                   predictions, threshold, keep, compared, pass, firstOut,
                   detected_holds, written>>
    /\ UNCHANGED apiVars
    /\ UNCHANGED tileVars

(* lines 58-70: one iteration of the inner loop, or its end *)
DedupInner ==
    /\ pc = "inner"
    /\ IF j > Len(predictions)
       THEN /\ i' = i + 1
            /\ pc' = "outer"
            /\ UNCHANGED <<j, keep, compared>>
       ELSE LET r == InnerBody(predictions, keep, i, j, threshold)
            IN  /\ keep' = r.keep
                /\ compared' = IF r.cmp THEN compared \cup {<<i, j>>} ELSE compared
                /\ IF r.brk
                   THEN /\ i' = i + 1
                        /\ pc' = "outer"
                        /\ UNCHANGED j
                   ELSE /\ j' = j + 1
                        /\ UNCHANGED <<i, pc>>
    /\ UNCHANGED <<width, height, confidence, row, col, all_predictions,
                   predictions, threshold, pass, firstOut, output,
                   detected_holds, written>>
    /\ UNCHANGED apiVars
    /\ UNCHANGED tileVars

(* lines 191-278: the result-assembly loop; detect_holds returns *)
Assemble ==
    /\ pc = "deduped"
    /\ pass = 1
    /\ detected_holds' = AssembleHolds(output, confidence)
    /\ pc' = "assembled"
    /\ UNCHANGED <<width, height, confidence, row, col, all_predictions, written>>
    /\ UNCHANGED apiVars
    /\ UNCHANGED dedupVars
    /\ UNCHANGED tileVars

(* lines 307-318: main writes the JSON file *)
WriteOutput ==
    /\ pc = "assembled"
    /\ written' = TRUE
    /\ pc' = "done"
    /\ UNCHANGED <<width, height, confidence, row, col, all_predictions,
                   detected_holds>>
    /\ UNCHANGED apiVars
    /\ UNCHANGED dedupVars
    /\ UNCHANGED tileVars

(* deduplicate_predictions applied to its own output, same threshold *)
Reapply ==
    /\ pc = "deduped"
    /\ pass = 1
    /\ firstOut' = output
    /\ EnterDedup(output, threshold, 2)
    /\ UNCHANGED <<width, height, confidence, row, col, all_predictions,
                   detected_holds, written>>
    /\ UNCHANGED apiVars
    /\ UNCHANGED tileVars

(* lines 159-167: the tile loop, counting the tiles that hold pixel (px, py) *)
TileVisit ==
    /\ pc = "census"
    /\ row < tile_rows
    /\ cover' = cover + (IF InTile(px, py, Tile) THEN 1 ELSE 0)
    /\ row' = NextRow(row, col)
    /\ col' = NextCol(row, col)
    /\ UNCHANGED <<width, height, confidence, pc, all_predictions,
                   detected_holds, written, px, py>>
    /\ UNCHANGED apiVars
    /\ UNCHANGED dedupVars

---------------------------------------------------------------------------
(* Specifications *)

IdleApi ==
    /\ attempt = 0
    /\ statuses = <<>>
    /\ waits = <<>>
    /\ response = [status_code |-> 0, json |-> ErrorBody]
    /\ ret = <<>>

IdleDedup ==
    /\ predictions = <<>>
    /\ threshold = dedup_threshold
    /\ keep = <<>>
    /\ i = 1
    /\ j = 1
    /\ compared = {}
    /\ pass = 1
    /\ firstOut = <<>>
    /\ output = <<>>

IdleTiles == px = 0 /\ py = 0 /\ cover = 0

(* the whole run of main on a readable image, from the first tile *)
Init ==
    /\ width \in ImageDims
    /\ height \in ImageDims
    /\ confidence \in Confidences
    /\ pc = "tile"
    /\ row = 0
    /\ col = 0
    /\ all_predictions = <<>>
    /\ detected_holds = <<>>
    /\ written = FALSE
    /\ IdleApi
    /\ IdleDedup
    /\ IdleTiles

Next ==
    \/ EnterCallApi
    \/ Request
    \/ MapAndExtend
    \/ BeginDedup
    \/ DedupOuter
    \/ DedupInner
    \/ Assemble
    \/ WriteOutput

Spec == Init /\ [][Next]_vars

(* deduplicate_predictions and the assembly loop on every bounded input *)
InitDedup ==
    /\ width \in ImageDims
    /\ height \in ImageDims
    /\ confidence \in Confidences
    /\ row = tile_rows
    /\ col = 0
    /\ all_predictions \in DetLists
    /\ threshold \in Thresholds
    /\ pc = DedupEntry(all_predictions).pc
    /\ predictions = DedupEntry(all_predictions).predictions
    /\ keep = DedupEntry(all_predictions).keep
    /\ i = 1
    /\ j = 1
    /\ compared = {}
    /\ pass = 1
    /\ firstOut = <<>>
    /\ output = <<>>
    /\ detected_holds = <<>>
    /\ written = FALSE
    /\ IdleApi
    /\ IdleTiles

NextDedup ==
    \/ DedupOuter
    \/ DedupInner
    \/ Reapply
    \/ Assemble

SpecDedup == InitDedup /\ [][NextDedup]_vars

(* the tile loop for every pixel of the working image *)
InitTiles ==
    /\ width \in ImageDims
    /\ height \in ImageDims
    /\ confidence = default_confidence
    /\ pc = "census"
    /\ row = 0
    /\ col = 0
    /\ px \in 0..(width - 1)
    /\ py \in 0..(height - 1)
    /\ cover = 0
    /\ all_predictions = <<>>
    /\ detected_holds = <<>>
    /\ written = FALSE
    /\ IdleApi
    /\ IdleDedup

NextTiles == TileVisit

SpecTiles == InitTiles /\ [][NextTiles]_vars

---------------------------------------------------------------------------
(* Vocabulary of the properties *)

Last(seq) == seq[Len(seq)]

IsServerError(status) == status >= 500

IsFatalStatus(status) == status # 200 /\ status < 500

AllAttemptsFailed ==
    /\ Len(statuses) = max_retries
    /\ \A k \in 1..Len(statuses) : IsServerError(statuses[k])

(* k server errors followed by a 200 *)
FailedThenOk(k) ==
    /\ Len(statuses) = k + 1
    /\ statuses[k + 1] = 200
    /\ \A m \in 1..k : IsServerError(statuses[m])

ConfOf(pred) == IF "confidence" \in DOMAIN pred THEN pred.confidence ELSE 0

(* the centers of p and q are at Euclidean distance < thr *)
Within(p, q, thr) ==
    LET cp == CenterOf(p)
        cq == CenterOf(q)
    IN  DistSqScaled(cp, cq) < thr * thr * cp.n * cp.n * cq.n * cq.n

Idx == 1..Len(predictions)

Pairs == { pr \in Idx \X Idx : pr[1] < pr[2] }

NearPair(a, b) == Within(predictions[a], predictions[b], threshold)

(* the member of the pair a < b that the comparison removes *)
Loser(a, b) == IF ConfOf(predictions[a]) >= ConfOf(predictions[b]) THEN b ELSE a

(* b may stand for a: close to it and at least as confident *)
Stands(a, b) ==
    /\ a # b
    /\ NearPair(a, b)
    /\ ConfOf(predictions[b]) >= ConfOf(predictions[a])

RECURSIVE ChainFrom(_)
(* the detections a chain of Stands steps leads to from those of S *)
ChainFrom(S) ==
    LET T == S \cup { b \in Idx : \E a \in S : Stands(a, b) }
    IN  IF T = S THEN S ELSE ChainFrom(T)

RECURSIVE ConfsAtLeast(_, _)
ConfsAtLeast(preds, minimum) ==
    IF preds = <<>> THEN <<>>
    ELSE (IF ConfOf(Head(preds)) >= minimum THEN <<ConfOf(Head(preds))>> ELSE <<>>)
         \o ConfsAtLeast(Tail(preds), minimum)

Abs(n) == IF n < 0 THEN -n ELSE n

CensusDone == pc = "census" /\ row = tile_rows /\ width = 300 /\ height = 300

GridLines == {100, 200}

---------------------------------------------------------------------------
C2_FatalStatusRaisesAtOnce ==
    (statuses # <<>> /\ IsFatalStatus(Last(statuses))) =>
        /\ pc = "raised"
        /\ Len(waits) = Len(statuses) - 1
        /\ ~written
        /\ ~ENABLED Next

C2_Witness ==
    /\ pc = "raised"
    /\ statuses = <<503, 404>>
    /\ waits = <<1>>
    /\ row = 1 /\ col = 1
    /\ all_predictions # <<>>

(* C3: for k in {0, 1, 2}, k 5xx responses followed by a 200 make call_api *)
(* return the predictions of the 200 response without raising, after the k *)
(* waits 2^0, .., 2^(k-1) and k+1 requests; no call issues more than 3     *)
(* requests.                                                               *)
C3_RetryThenSuccess ==
    /\ Len(statuses) <= 3
    /\ \A k \in 0..2 :
         FailedThenOk(k) =>
            /\ pc # "raised"
            /\ pc # "call"
            /\ ret = (IF "predictions" \in DOMAIN response.json
                      THEN response.json.predictions ELSE <<>>)
            /\ waits = [m \in 1..k |-> 2 ^ (m - 1)]

C3_Witness ==
    /\ pc = "returned"
    /\ statuses = <<503, 500, 200>>
    /\ waits = <<1, 2>>
    /\ ret # <<>>

(* C4, as stated: in the returned list, for every pair a < b of the        *)
(* filtered list with centers closer than the threshold, the member of     *)
(* lower confidence (b on a tie) is absent from the output.                *)
C4_EveryClosePairLoserRemoved ==
    pc = "deduped" =>
        \A pr \in Pairs : NearPair(pr[1], pr[2]) => ~keep[Loser(pr[1], pr[2])]

(* C4, amended: the rule holds for every close pair the loop compares,     *)
(* that is, whose two members are both still kept when the loop reaches    *)
(* it; a close pair it skips has a member that was already removed, and    *)
(* the other member may then survive whatever its confidence.              *)
C4_ComparedPairLoserRemoved ==
    /\ \A pr \in compared :
          /\ pr \in Pairs
          /\ NearPair(pr[1], pr[2]) => ~keep[Loser(pr[1], pr[2])]
    /\ pc = "deduped" =>
          \A pr \in Pairs \ compared :
              NearPair(pr[1], pr[2]) => (~keep[pr[1]] \/ ~keep[pr[2]])

C4_Witness ==
    /\ pc = "deduped"
    /\ Len(predictions) = 3
    /\ \E pr \in compared :
          /\ NearPair(pr[1], pr[2])
          /\ ConfOf(predictions[pr[1]]) = ConfOf(predictions[pr[2]])
          /\ predictions[pr[1]] # predictions[pr[2]]
          /\ keep[pr[1]]
    /\ \E pr \in Pairs \ compared :
          NearPair(pr[1], pr[2]) /\ keep[Loser(pr[1], pr[2])]

(* C5: any two detections of the output have centers at distance >= the   *)
(* threshold.                                                              *)
C5_SurvivorsApart ==
    pc = "deduped" =>
        \A a \in 1..Len(output) : \A b \in 1..Len(output) :
            a < b => ~Within(output[a], output[b], threshold)

C5_Witness ==
    /\ pc = "deduped"
    /\ threshold > 0
    /\ Len(output) = 2
    /\ Len(predictions) = 3

(* C6: deduplicate_predictions applied to its own output returns it        *)
(* unchanged, same elements in the same order.                             *)
C6_Idempotent ==
    (pc = "deduped" /\ pass = 2) => output = firstOut

C6_Witness ==
    /\ pc = "deduped"
    /\ pass = 2
    /\ Len(firstOut) = 2
    /\ Len(FilterEmpty(all_predictions)) = 3
    /\ output = firstOut

(* C7: a list of exactly two detections with centers closer than the       *)
(* threshold is reduced to one: the one of higher confidence, the earlier  *)
(* one when the confidences are equal.                                     *)
C7_TwoCloseCollapse ==
    (/\ pc = "deduped"
     /\ pass = 1
     /\ Len(all_predictions) = 2
     /\ FilterEmpty(all_predictions) = all_predictions
     /\ Within(all_predictions[1], all_predictions[2], threshold))
    => output = << IF ConfOf(all_predictions[1]) >= ConfOf(all_predictions[2])
                   THEN all_predictions[1] ELSE all_predictions[2] >>

C7_Witness ==
    /\ pc = "deduped"
    /\ pass = 1
    /\ Len(all_predictions) = 2
    /\ FilterEmpty(all_predictions) = all_predictions
    /\ Within(all_predictions[1], all_predictions[2], threshold)
    /\ ConfOf(all_predictions[1]) < ConfOf(all_predictions[2])
    /\ output = <<all_predictions[2]>>

(* C8, as stated: in the 300x300 image every pixel is in a tile, and every *)
(* pixel at distance <= 30 from a grid line (100 or 200, on either axis)   *)
(* is in two tiles.                                                        *)
C8_CoverageInclusive ==
    CensusDone =>
        /\ cover >= 1
        /\ (\E g \in GridLines : Abs(px - g) <= 30 \/ Abs(py - g) <= 30) => cover >= 2

(* C8, amended: in the 300x300 image every pixel is in a tile, and every   *)
(* pixel with g - 30 <= coordinate < g + 30 for a grid line g (100 or 200, *)
(* on either axis) is in two tiles; the pixels at g + 30 (130 and 230) are *)
(* only in one tile along that axis.                                       *)
C8_CoverageHalfOpen ==
    CensusDone =>
        /\ cover >= 1
        /\ (\E g \in GridLines : \/ (g - 30 <= px /\ px < g + 30)
                                 \/ (g - 30 <= py /\ py < g + 30)) => cover >= 2

C8_Witness ==
    /\ CensusDone
    /\ px = 129
    /\ py = 150
    /\ cover = 2

(* C9: the assembly loop emits a hold for exactly the deduplicated         *)
(* detections whose confidence (0 when the field is missing) is equal to   *)
(* or above the configured threshold, in order.                            *)
C9_ConfidenceFilter ==
    pc = "assembled" =>
        /\ Len(detected_holds) = Len(ConfsAtLeast(output, confidence))
        /\ \A h \in 1..Len(detected_holds) :
              detected_holds[h].confidence = ConfsAtLeast(output, confidence)[h]

C9_Witness ==
    /\ pc = "assembled"
    /\ confidence = 500
    /\ Len(output) = 3
    /\ Len(detected_holds) = 1
    /\ detected_holds[1].confidence = confidence
    /\ \E k \in 1..Len(output) : "confidence" \notin DOMAIN output[k]

(* C10, as stated: every detection removed by the pairwise loop has in the *)
(* output a survivor closer than the threshold and at least as confident.  *)
C10_RemovedHasCloseSurvivor ==
    pc = "deduped" =>
        \A a \in Idx : ~keep[a] => \E b \in Idx : keep[b] /\ Stands(a, b)

(* C10, amended: every detection removed by the pairwise loop is linked to *)
(* a survivor by a chain of detections of the filtered list in which each  *)
(* step goes to a detection closer than the threshold and at least as      *)
(* confident; the survivor itself may be at distance >= threshold.         *)
C10_RemovedHasChainToSurvivor ==
    pc = "deduped" =>
        \A a \in Idx : ~keep[a] => \E b \in ChainFrom({a}) : keep[b]

C10_Witness ==
    /\ pc = "deduped"
    /\ \E a \in Idx :
          /\ ~keep[a]
          /\ ~\E b \in Idx : keep[b] /\ Stands(a, b)
          /\ \E b \in ChainFrom({a}) : keep[b]

===========================================================================
